---- MODULE Spec2Model ----
(***************************************************************************)
(* Admin dashboard of the scavenger hunt: the claim-attempts admin route   *)
(* (GET monitor, POST clear), the rate-limit display of the user history   *)
(* modal, and the useHuntItems hook.                                       *)
(*                                                                         *)
(* Time is in milliseconds, as Date.getTime() gives it.                    *)
(***************************************************************************)
EXTENDS Integers, Sequences, FiniteSets, TLC

VARIABLES
    clock,      \* the server's wall clock, ms
    db,         \* User collection: email -> claim_attempts (insertion order)
    requests,   \* route handlers: slot -> position, locals and response
    auditLog,   \* the records logAdminAction has written
    hook,       \* useHuntItems: the useState cells
    isOpen,     \* useHuntItems: the isOpen argument
    calls,      \* useHuntItems: async functions awaiting their fetch
    items,      \* the hunt items the /api/hunt-items service stores
    nextId,     \* the _id the service gives the next hunt item
    confirmDialog,  \* the window.confirm dialog on screen, if any
    modal,      \* UserHistoryDetailsModal: the useState cells
    props,      \* UserHistoryDetailsModal: isOpen, userId, userEmail
    modalCalls, \* UserHistoryDetailsModal: async functions awaiting
    browserNow, \* the browser's clock, ms
    rateLimitInfo   \* what the rate limit status last rendered shows

serverVars == <<clock, db, requests, auditLog>>
hookVars == <<hook, isOpen, calls, items, nextId>>
modalVars == <<modal, props, modalCalls, browserNow, rateLimitInfo>>
clientVars == <<hookVars, confirmDialog, modalVars>>

vars == <<serverVars, hookVars, confirmDialog, modalVars>>

----------------------------------------------------------------------------
(* Bounds *)

MaxClock == 2       \* the clock stops at this many windows
MaxAttempts == 3    \* claim attempts stored over all users
MaxAudit == 1       \* audit records written, one more for a second handler
MaxLimit == 2       \* largest explicit ?limit= of a GET
MaxItems == 2       \* hunt items created
MaxShown == 11      \* failed attempts in a list the modal is given

(* Program constants *)

WindowMs == 900000          \* 15 * 60 * 1000
DefaultLimit == 100         \* searchParams.get("limit") || "100"

TickMs == WindowMs          \* the clock advances a window's length at a time
InitClock == 1 * TickMs     \* the time the route starts being watched at

----------------------------------------------------------------------------
(* The data *)

Emails == {"u1", "u2"}              \* the users of the collection
GhostEmail == "ghost"               \* an email no user has
NoEmail == ""                       \* a missing / empty string

validClearTypes == {"failed", "all", "rate-limit"}

Slots == {1}

Idle == [pc |-> "idle"]

Min(a, b) == IF a < b THEN a ELSE b
Max(a, b) == IF a > b THEN a ELSE b

(* [].filter(pred).length for the two predicates the route counts with *)
failedAttemptsCount(attempts) ==
    Len(SelectSeq(attempts, LAMBDA attempt : ~attempt.success))

----------------------------------------------------------------------------
(* POST: the three clear policies *)

windowStart(now) == now - WindowMs

(* the window boundary taken as outside the window *)
keepRateLimitInclusive(attempt, now) ==
    attempt.success \/ attempt.timestamp <= windowStart(now)

(* the comparison turned round: the recent attempts kept, the old dropped *)
keepRateLimitRecent(attempt, now) ==
    attempt.success \/ attempt.timestamp >= windowStart(now)

keepRateLimit(attempt, now) ==
    attempt.success \/ attempt.timestamp < windowStart(now)

(* the predicate negated: the failed attempts kept *)
keepFailedInverted(attempt) == ~attempt.success

keepFailed(attempt) == attempt.success

clearAttempts(attempts, clearType, now) ==
    IF clearType = "failed"
    THEN SelectSeq(attempts, keepFailed)
    ELSE IF clearType = "rate-limit"
    THEN SelectSeq(attempts, LAMBDA attempt : keepRateLimit(attempt, now))
    ELSE <<>>


(* Lines 155-162 and 186-191: the snapshot sanitizeDataForLogging is given *)
attemptCounts(attempts) ==
    [claimAttemptsCount |-> Len(attempts),
     failedAttemptsCount |-> failedAttemptsCount(attempts)]

actionMap(clearType) ==
    IF clearType = "failed" THEN "CLEAR_CLAIM_ATTEMPTS_FAILED"
    ELSE IF clearType = "all" THEN "CLEAR_CLAIM_ATTEMPTS_ALL"
    ELSE IF clearType = "rate-limit" THEN "RESET_RATE_LIMIT"
    ELSE "undefined"

----------------------------------------------------------------------------
(* Sessions and requests *)

NoSession == [user |-> FALSE, email |-> NoEmail, admin |-> FALSE]

Sessions ==
    {NoSession,
     [user |-> TRUE, email |-> "admin@hunt", admin |-> TRUE],
     [user |-> TRUE, email |-> NoEmail, admin |-> TRUE],
     [user |-> TRUE, email |-> "player@hunt", admin |-> FALSE]}

PostBodies ==
    [userEmail : {"u1", GhostEmail, NoEmail},
     clearType : validClearTypes \cup {"bogus"}]

(* The status the guards of a handler answer with; 0 when they let it pass *)
(* the admin check left out *)
authStatusSessionOnly(session) ==
    IF ~session.user THEN 401 ELSE 0

authStatus(session) ==
    IF ~session.user THEN 401
    ELSE IF ~session.admin THEN 403
    ELSE 0

(* the clear type not validated *)
postStatusAnyType(session, body) ==
    IF authStatus(session) # 0 THEN authStatus(session)
    ELSE IF body.userEmail = NoEmail THEN 400
    ELSE IF body.userEmail \notin Emails THEN 404
    ELSE 0

postStatus(session, body) ==
    IF authStatus(session) # 0 THEN authStatus(session)
    ELSE IF body.userEmail = NoEmail THEN 400
    ELSE IF body.clearType \notin validClearTypes THEN 400
    ELSE IF body.userEmail \notin Emails THEN 404
    ELSE 0

errorBody(status) ==
    [error |-> CASE status = 401 -> "Unauthorized"
                 [] status = 403 -> "Forbidden: Admin access required"
                 [] status = 404 -> "User not found"
                 [] OTHER -> "Bad request"]

----------------------------------------------------------------------------
(* The environment: time passes; the claim handler has recorded attempts,
   in chronological order *)

Timestamps == {k * TickMs : k \in 0..(InitClock \div TickMs)}

Attempts == [identifier : {"code"}, success : BOOLEAN, timestamp : Timestamps]

Chronological(attempts) ==
    \A i, j \in 1..Len(attempts) :
        i < j => attempts[i].timestamp <= attempts[j].timestamp

AttemptLists ==
    {l \in UNION {[1..n -> Attempts] : n \in 0..MaxAttempts} : Chronological(l)}

Collections ==
    {d \in [Emails -> AttemptLists] :
        LET RECURSIVE Sum(_)
            Sum(S) == IF S = {} THEN 0
                      ELSE LET e == CHOOSE x \in S : TRUE
                           IN Len(d[e]) + Sum(S \ {e})
        IN Sum(Emails) <= MaxAttempts}

Tick ==
    /\ clock < MaxClock * TickMs
    /\ clock' = clock + TickMs
    /\ UNCHANGED <<db, requests, auditLog, clientVars>>

----------------------------------------------------------------------------
(* POST /api/admin/claim-attempts *)

Done(method, session, request, status, body) ==
    [pc |-> "done", method |-> method, session |-> session,
     request |-> request, status |-> status, body |-> body]

(* Audit records still to come from the handlers in flight *)
AuditPending ==
    Cardinality({t \in DOMAIN requests :
                    /\ requests[t].pc \in {"loaded", "saved"}
                    /\ requests[t].session.email # NoEmail})

(* Lines 110-162: the guards, then findOne and the audit snapshot *)
POST(s, session, body) ==
    /\ requests[s] = Idle
    /\ LET status == postStatus(session, body) IN
       IF status # 0
       THEN /\ requests' = [requests EXCEPT ![s] =
                  Done("POST", session, body, status, errorBody(status))]
            /\ UNCHANGED <<clock, db, auditLog, clientVars>>
       ELSE /\ session.email # NoEmail
                  => Len(auditLog) + AuditPending
                        < MaxAudit + Cardinality(DOMAIN requests) - 1
            /\ requests' = [requests EXCEPT ![s] =
                  [pc |-> "loaded", method |-> "POST",
                   session |-> session, request |-> body,
                   claim_attempts |-> db[body.userEmail],
                   previousAttempts |-> db[body.userEmail],
                   previousData |-> attemptCounts(db[body.userEmail])]]
            /\ UNCHANGED <<clock, db, auditLog, clientVars>>

(* user.save() of a document whose claim_attempts was assigned: the stored
   array is replaced by the document's, whatever was stored since the read *)
save(users, email, claim_attempts) ==
    [users EXCEPT ![email] = claim_attempts]

(* the filter applied to the list stored at the time of the save *)
POST_saveStored(s) ==
    /\ requests[s].pc = "loaded"
    /\ LET p == requests[s]
           kept == clearAttempts(db[p.request.userEmail], p.request.clearType,
                                 clock)
       IN
       /\ db' = save(db, p.request.userEmail, kept)
       /\ requests' = [requests EXCEPT ![s].pc = "saved",
                                       ![s].claim_attempts = kept]
    /\ UNCHANGED <<clock, auditLog, clientVars>>

(* Lines 164-183: the filter of the policy on the document read, and save *)
POST_save(s) ==
    /\ requests[s].pc = "loaded"
    /\ LET p == requests[s]
           kept == clearAttempts(p.claim_attempts, p.request.clearType, clock)
       IN
       /\ db' = save(db, p.request.userEmail, kept)
       /\ requests' = [requests EXCEPT ![s].pc = "saved",
                                       ![s].claim_attempts = kept]
    /\ UNCHANGED <<clock, auditLog, clientVars>>

(* Lines 185-230: the audit record, written when the session has an email,
   and the confirmation *)
POST_respond(s) ==
    /\ requests[s].pc = "saved"
    /\ LET p == requests[s]
           newData == attemptCounts(p.claim_attempts)
           adminEmail == p.session.email
       IN
       /\ auditLog' =
            IF adminEmail # NoEmail
            THEN Append(auditLog,
                   [adminEmail |-> adminEmail,
                    action |-> actionMap(p.request.clearType),
                    targetUserEmail |-> p.request.userEmail,
                    details |-> [clearType |-> p.request.clearType,
                                 attemptsClearedCount |->
                                    Len(p.previousAttempts)
                                    - Len(p.claim_attempts)],
                    previousData |-> p.previousData,
                    newData |-> newData])
            ELSE auditLog
       /\ requests' = [requests EXCEPT ![s] =
             Done("POST", p.session, p.request, 200,
                  [success |-> TRUE,
                   message |-> <<"Cleared", p.request.clearType,
                                 p.request.userEmail>>])]
    /\ UNCHANGED <<clock, db, clientVars>>

----------------------------------------------------------------------------
(* GET /api/admin/claim-attempts *)

Queries ==
    [email : {NoEmail, "u1", GhostEmail},
     failed : BOOLEAN,
     limit : {<<>>} \cup {<<n>> : n \in 1..MaxLimit}]

(* parseInt(searchParams.get("limit") || "100") *)
parseLimit(param) == IF param = <<>> THEN DefaultLimit ELSE param[1]

(* User.find(query): email ? { email } : {} *)
matchingUsers(email) ==
    IF email = NoEmail THEN Emails ELSE {u \in Emails : u = email}

(* .sort({ "claim_attempts.timestamp": -1 }): a descending sort on an array
   field compares the largest element; a user without attempts sorts as
   null, after every other *)
sortKey(users, u) ==
    IF users[u] = <<>> THEN -1
    ELSE LET ts == {users[u][i].timestamp : i \in 1..Len(users[u])}
         IN CHOOSE m \in ts : \A t \in ts : t <= m

Orderings(S) ==
    {o \in [1..Cardinality(S) -> S] : \A i, j \in DOMAIN o : i # j => o[i] # o[j]}

(* The orders the store may return the matching users in: users with equal
   keys come in any order *)
findSorted(users, email) ==
    {o \in Orderings(matchingUsers(email)) :
        \A i, j \in DOMAIN o :
            i < j => sortKey(users, o[i]) >= sortKey(users, o[j])}

take(list, n) == SubSeq(list, 1, Min(n, Len(list)))

(* Lines 48-72: users.forEach / claim_attempts.forEach / push *)
RECURSIVE flatten(_, _, _)
flatten(users, order, failedOnly) ==
    IF order = <<>> THEN <<>>
    ELSE LET u == Head(order)
             mine == [i \in 1..Len(users[u]) |->
                        [userEmail |-> u,
                         identifier |-> users[u][i].identifier,
                         success |-> users[u][i].success,
                         timestamp |-> users[u][i].timestamp]]
         IN SelectSeq(mine, LAMBDA a : ~failedOnly \/ ~a.success)
            \o flatten(users, Tail(order), failedOnly)

(* Lines 75-78: Array.prototype.sort, which is stable, by timestamp
   descending *)
RECURSIVE insertDesc(_, _)
insertDesc(sorted, a) ==
    IF sorted = <<>> THEN <<a>>
    ELSE IF Head(sorted).timestamp >= a.timestamp
         THEN <<Head(sorted)>> \o insertDesc(Tail(sorted), a)
         ELSE <<a>> \o sorted

RECURSIVE sortDesc(_)
sortDesc(list) ==
    IF list = <<>> THEN <<>>
    ELSE insertDesc(sortDesc(SubSeq(list, 1, Len(list) - 1)), list[Len(list)])

(* Lines 83-91 *)
stats(claimAttempts) ==
    [totalAttempts |-> Len(claimAttempts),
     failedAttempts |-> Len(SelectSeq(claimAttempts, LAMBDA a : ~a.success)),
     successfulAttempts |-> Len(SelectSeq(claimAttempts, LAMBDA a : a.success)),
     uniqueUsers |-> Cardinality({claimAttempts[i].userEmail :
                                     i \in 1..Len(claimAttempts)})]

(* Lines 34-37 *)
queryUsers(order, limit) == take(order, limit)

(* Lines 25-97 for one order of the users found *)
getBody(users, order, query) ==
    LET limit == parseLimit(query.limit)
        found == queryUsers(order, limit)
        claimAttempts == take(sortDesc(flatten(users, found, query.failed)),
                              limit)
    IN [success |-> TRUE, claimAttempts |-> claimAttempts,
        stats |-> stats(claimAttempts)]

GET(s, session, query) ==
    /\ requests[s] = Idle
    /\ LET status == authStatus(session) IN
       IF status # 0
       THEN requests' = [requests EXCEPT ![s] =
               Done("GET", session, query, status, errorBody(status))]
       ELSE \E order \in findSorted(db, query.email) :
               requests' = [requests EXCEPT ![s] =
                  Done("GET", session, query, 200, getBody(db, order, query))]
    /\ UNCHANGED <<clock, db, auditLog, clientVars>>

(* The response has gone out: the handler is over *)
Complete(s) ==
    /\ requests[s].pc = "done"
    /\ requests' = [requests EXCEPT ![s] = Idle]
    /\ UNCHANGED <<clock, db, auditLog, clientVars>>

----------------------------------------------------------------------------
(* useHuntItems *)

Null == "null"                      \* null, for a string cell
None == [kind |-> "none"]           \* a free place of calls / modalCalls

CallSlots == {1, 2}

ItemIds == 1..MaxItems
HuntItems == [_id : ItemIds, points : 0..1]

emptyFormData == [points |-> 0]

(* What the edit form submits: the record with its points changed *)
Edits == {item \in HuntItems : item.points = 1}

InitHook ==
    /\ hook = [huntItems |-> <<>>, loading |-> FALSE, error |-> Null,
               editingItem |-> <<>>, showAddForm |-> FALSE,
               formData |-> emptyFormData, isSubmitting |-> FALSE]
    /\ isOpen = FALSE
    /\ calls = [c \in CallSlots |-> None]
    /\ items = <<>>
    /\ nextId = 1
    /\ confirmDialog = None

(* c is the first free place of the table *)
FreeCall(table, c) ==
    /\ table[c] = None
    /\ \A b \in CallSlots : b < c => table[b] # None

(* The browser runs no script while a confirm dialog is on screen *)
Running == confirmDialog = None

(* the answer not looked at *)
confirmedAlways(answer) == TRUE

(* if (!confirm(...)) return *)
confirmed(answer) == answer = "accepted"

(* Lines 91, 127-131 and 160: the list each operation hands to
   setHuntItems, from the huntItems of its closure *)
created(huntItems, huntItem) == <<huntItem>> \o huntItems

updated(huntItems, id, huntItem) ==
    [i \in 1..Len(huntItems) |->
        IF huntItems[i]._id = id THEN huntItem ELSE huntItems[i]]

deleted(huntItems, id) == SelectSeq(huntItems, LAMBDA item : item._id # id)

(* Lines 48-53: fetchHuntItems up to its await *)
fetchHuntItems(c) ==
    /\ Running
    /\ isOpen
    /\ FreeCall(calls, c)
    /\ hook' = [hook EXCEPT !.loading = TRUE, !.error = Null]
    /\ calls' = [calls EXCEPT ![c] = [kind |-> "fetch", stage |-> "sent"]]
    /\ UNCHANGED <<serverVars, isOpen, items, nextId, confirmDialog, modalVars>>

(* Lines 170-179: the effect of isOpen turning true *)
OpenEffect(c) ==
    /\ Running
    /\ ~isOpen
    /\ FreeCall(calls, c)
    /\ isOpen' = TRUE
    /\ hook' = [hook EXCEPT !.loading = TRUE, !.error = Null,
                            !.editingItem = <<>>, !.showAddForm = FALSE,
                            !.formData = emptyFormData,
                            !.isSubmitting = FALSE]
    /\ calls' = [calls EXCEPT ![c] = [kind |-> "fetch", stage |-> "sent"]]
    /\ UNCHANGED <<serverVars, items, nextId, confirmDialog, modalVars>>

(* isOpen turning false: the effect does nothing *)
CloseItems ==
    /\ Running
    /\ isOpen
    /\ isOpen' = FALSE
    /\ UNCHANGED <<serverVars, hook, calls, items, nextId, confirmDialog, modalVars>>

(* Lines 72-83: createHuntItem up to its await *)
createHuntItem(c) ==
    /\ Running
    /\ isOpen
    /\ FreeCall(calls, c)
    /\ hook' = [hook EXCEPT !.isSubmitting = TRUE, !.error = Null]
    /\ calls' = [calls EXCEPT ![c] =
          [kind |-> "create", stage |-> "sent",
           formData |-> hook.formData, huntItems |-> hook.huntItems]]
    /\ UNCHANGED <<serverVars, isOpen, items, nextId, confirmDialog, modalVars>>

(* Lines 105-119: updateHuntItem up to its await *)
updateHuntItem(c, item) ==
    /\ Running
    /\ isOpen
    /\ FreeCall(calls, c)
    /\ \E i \in 1..Len(hook.huntItems) : hook.huntItems[i]._id = item._id
    /\ hook' = [hook EXCEPT !.error = Null]
    /\ calls' = [calls EXCEPT ![c] =
          [kind |-> "update", stage |-> "sent",
           item |-> item, huntItems |-> hook.huntItems]]
    /\ UNCHANGED <<serverVars, isOpen, items, nextId, confirmDialog, modalVars>>

(* Lines 142-143: deleteHuntItem puts its question *)
deleteHuntItem(id) ==
    /\ Running
    /\ isOpen
    /\ \E i \in 1..Len(hook.huntItems) : hook.huntItems[i]._id = id
    /\ confirmDialog' = [kind |-> "deleteHuntItem", id |-> id,
                         answer |-> "pending"]
    /\ UNCHANGED <<serverVars, hookVars, modalVars>>

(* The user presses OK or Cancel *)
Answer(answer) ==
    /\ confirmDialog.kind # "none"
    /\ confirmDialog.answer = "pending"
    /\ confirmDialog' = [confirmDialog EXCEPT !.answer = answer]
    /\ UNCHANGED <<serverVars, hookVars, modalVars>>

(* Lines 143-152: confirm returns, and deleteHuntItem runs up to its await *)
deleteHuntItem_confirm(c) ==
    /\ confirmDialog.kind = "deleteHuntItem"
    /\ confirmDialog.answer # "pending"
    /\ FreeCall(calls, c)
    /\ confirmDialog' = None
    /\ IF confirmed(confirmDialog.answer)
       THEN /\ hook' = [hook EXCEPT !.error = Null]
            /\ calls' = [calls EXCEPT ![c] =
                  [kind |-> "delete", stage |-> "sent",
                   id |-> confirmDialog.id, huntItems |-> hook.huntItems]]
       ELSE UNCHANGED <<hook, calls>>
    /\ UNCHANGED <<serverVars, isOpen, items, nextId, modalVars>>

(* The /api/hunt-items service answers a request *)
HasItem(id) == \E i \in 1..Len(items) : items[i]._id = id

answered(call, data) == [call EXCEPT !.stage = "answered"] @@ [data |-> data]

huntItemsService(c, ok) ==
    /\ calls[c].kind # "none"
    /\ calls[c].stage = "sent"
    /\ LET call == calls[c] IN
       CASE ~ok ->
             /\ calls' = [calls EXCEPT ![c] =
                   answered(call, [success |-> FALSE, error |-> "refused"])]
             /\ UNCHANGED <<items, nextId>>
         [] ok /\ call.kind = "fetch" ->
             /\ calls' = [calls EXCEPT ![c] =
                   answered(call, [success |-> TRUE, huntItems |-> items])]
             /\ UNCHANGED <<items, nextId>>
         [] ok /\ call.kind = "create" ->
             /\ nextId \in ItemIds
             /\ LET huntItem == [_id |-> nextId,
                                 points |-> call.formData.points]
                IN /\ items' = <<huntItem>> \o items
                   /\ nextId' = nextId + 1
                   /\ calls' = [calls EXCEPT ![c] =
                         answered(call, [success |-> TRUE,
                                         huntItem |-> huntItem])]
         [] ok /\ call.kind = "update" ->
             /\ HasItem(call.item._id)
             /\ items' = updated(items, call.item._id, call.item)
             /\ calls' = [calls EXCEPT ![c] =
                   answered(call, [success |-> TRUE, huntItem |-> call.item])]
             /\ UNCHANGED nextId
         [] ok /\ call.kind = "delete" ->
             /\ HasItem(call.id)
             /\ items' = deleted(items, call.id)
             /\ calls' = [calls EXCEPT ![c] = answered(call, [success |-> TRUE])]
             /\ UNCHANGED nextId
    /\ UNCHANGED <<serverVars, hook, isOpen, confirmDialog, modalVars>>

(* The rest of each async function, run when its fetch has answered *)
Answered(c, kind) ==
    /\ Running
    /\ calls[c].kind = kind
    /\ calls[c].stage = "answered"

(* Lines 54-68 *)
fetchHuntItems_resume(c) ==
    /\ Answered(c, "fetch")
    /\ LET data == calls[c].data IN
       hook' = IF data.success
               THEN [hook EXCEPT !.huntItems = data.huntItems,
                                 !.loading = FALSE]
               ELSE [hook EXCEPT !.error = data.error, !.loading = FALSE]
    /\ calls' = [calls EXCEPT ![c] = None]
    /\ UNCHANGED <<serverVars, isOpen, items, nextId, confirmDialog, modalVars>>

(* Lines 85-101 *)
createHuntItem_resume(c) ==
    /\ Answered(c, "create")
    /\ LET data == calls[c].data IN
       hook' = IF data.success
               THEN [hook EXCEPT
                       !.huntItems = created(calls[c].huntItems, data.huntItem),
                       !.formData = emptyFormData,
                       !.showAddForm = FALSE,
                       !.isSubmitting = FALSE]
               ELSE [hook EXCEPT !.error = data.error, !.isSubmitting = FALSE]
    /\ calls' = [calls EXCEPT ![c] = None]
    /\ UNCHANGED <<serverVars, isOpen, items, nextId, confirmDialog, modalVars>>

(* Lines 121-138 *)
updateHuntItem_resume(c) ==
    /\ Answered(c, "update")
    /\ LET data == calls[c].data IN
       hook' = IF data.success
               THEN [hook EXCEPT
                       !.huntItems = updated(calls[c].huntItems,
                                             calls[c].item._id, data.huntItem),
                       !.editingItem = <<>>]
               ELSE [hook EXCEPT !.error = data.error]
    /\ calls' = [calls EXCEPT ![c] = None]
    /\ UNCHANGED <<serverVars, isOpen, items, nextId, confirmDialog, modalVars>>

(* Lines 154-166 *)
deleteHuntItem_resume(c) ==
    /\ Answered(c, "delete")
    /\ LET data == calls[c].data IN
       hook' = IF data.success
               THEN [hook EXCEPT
                       !.huntItems = deleted(calls[c].huntItems, calls[c].id)]
               ELSE [hook EXCEPT !.error = data.error]
    /\ calls' = [calls EXCEPT ![c] = None]
    /\ UNCHANGED <<serverVars, isOpen, items, nextId, confirmDialog, modalVars>>

----------------------------------------------------------------------------
(* UserHistoryDetailsModal *)

UserIds == {"u1", "u2"}

RateLimitMax == 10

InitModal ==
    /\ modal = [userHistory |-> <<>>, claimAttempts |-> <<>>,
                loading |-> FALSE, error |-> Null, isClearing |-> FALSE]
    /\ props = [isOpen |-> FALSE, userId |-> Null, userEmail |-> NoEmail]
    /\ modalCalls = [c \in CallSlots |-> None]
    /\ browserNow = InitClock
    /\ rateLimitInfo = <<>>

(* the window taken as open at its start *)
recentFailedExclusive(attempt, now) ==
    ~attempt.success /\ attempt.timestamp > now - WindowMs

(* a window twice as long *)
recentFailedWide(attempt, now) ==
    ~attempt.success /\ attempt.timestamp >= now - 2 * WindowMs

(* Lines 260-263: the filter of calculateRateLimit *)
recentFailed(attempt, now) ==
    ~attempt.success /\ attempt.timestamp >= now - WindowMs

(* Lines 256-270 *)
calculateRateLimit(claimAttempts, now) ==
    LET recentFailedAttempts ==
            SelectSeq(claimAttempts, LAMBDA attempt : recentFailed(attempt, now))
    IN [recentFailedAttempts |-> Len(recentFailedAttempts),
        isRateLimited |-> Len(recentFailedAttempts) >= RateLimitMax,
        remainingAttempts |-> Max(0, RateLimitMax - Len(recentFailedAttempts))]

(* Lines 372 and 468-504: the status is drawn when the modal is not loading
   and has attempts to show *)
RenderRateLimit ==
    /\ Running
    /\ rateLimitInfo' =
          IF ~modal.loading /\ Len(modal.claimAttempts) > 0
          THEN <<calculateRateLimit(modal.claimAttempts, browserNow)>>
          ELSE <<>>
    /\ rateLimitInfo' # rateLimitInfo
    /\ UNCHANGED <<serverVars, hookVars, confirmDialog, modal, props,
                   modalCalls, browserNow>>

(* Lines 320-327: fetchUserHistory up to its await, with the userId of the
   render that made it *)
startFetchUserHistory(c, userId) ==
    /\ modal' = [modal EXCEPT !.loading = TRUE, !.error = Null]
    /\ modalCalls' = [modalCalls EXCEPT ![c] =
          [kind |-> "fetchUserHistory", stage |-> "sent", userId |-> userId]]

(* The parent opens the modal on a user; lines 344-349: the effect *)
OpenModal(c, u) ==
    /\ Running
    /\ ~props.isOpen
    /\ FreeCall(modalCalls, c)
    /\ props' = [isOpen |-> TRUE, userId |-> u, userEmail |-> u]
    /\ startFetchUserHistory(c, u)
    /\ UNCHANGED <<serverVars, hookVars, confirmDialog, browserNow,
                   rateLimitInfo>>

(* Lines 351-356 *)
handleClose ==
    /\ Running
    /\ props.isOpen
    /\ modal' = [modal EXCEPT !.userHistory = <<>>, !.claimAttempts = <<>>,
                              !.error = Null]
    /\ props' = [props EXCEPT !.isOpen = FALSE]
    /\ UNCHANGED <<serverVars, hookVars, confirmDialog, modalCalls,
                   browserNow, rateLimitInfo>>

(* Lines 272-287: a clear button pressed (lines 445-465: drawn when the
   modal is not loading, disabled while isClearing) *)
clearClaimAttempts(clearType) ==
    /\ Running
    /\ props.isOpen
    /\ ~modal.loading
    /\ ~modal.isClearing
    /\ props.userEmail # NoEmail
    /\ confirmDialog' = [kind |-> "clearClaimAttempts", clearType |-> clearType,
                         answer |-> "pending"]
    /\ UNCHANGED <<serverVars, hookVars, modalVars>>

(* Lines 287-302: confirm returns, and clearClaimAttempts runs up to its
   await *)
clearClaimAttempts_confirm(c) ==
    /\ confirmDialog.kind = "clearClaimAttempts"
    /\ confirmDialog.answer # "pending"
    /\ FreeCall(modalCalls, c)
    /\ confirmDialog' = None
    /\ IF confirmed(confirmDialog.answer)
       THEN /\ modal' = [modal EXCEPT !.isClearing = TRUE]
            /\ modalCalls' = [modalCalls EXCEPT ![c] =
                  [kind |-> "clearClaimAttempts", stage |-> "sent",
                   clearType |-> confirmDialog.clearType,
                   userEmail |-> props.userEmail, userId |-> props.userId]]
       ELSE UNCHANGED <<modal, modalCalls>>
    /\ UNCHANGED <<serverVars, hookVars, props, browserNow, rateLimitInfo>>

(* What GET /api/users/{id} serves for a user *)
userData(u) ==
    [history |-> <<[_id |-> u]>>,
     claim_attempts |-> <<[identifier |-> u, success |-> FALSE,
                           timestamp |-> InitClock]>>]

(* The services answer a request of the modal *)
modalService(c, ok) ==
    /\ modalCalls[c].kind # "none"
    /\ modalCalls[c].stage \in {"sent", "refetch"}
    /\ LET call == modalCalls[c]
           data == IF ~ok THEN [success |-> FALSE, error |-> "refused"]
                   ELSE IF call.kind = "clearClaimAttempts" /\ call.stage = "sent"
                   THEN [success |-> TRUE]
                   ELSE [success |-> TRUE, user |-> userData(call.userId)]
       IN modalCalls' = [modalCalls EXCEPT ![c] =
             [kind |-> call.kind,
              stage |-> IF call.stage = "sent" THEN "answered" ELSE "refetched",
              userId |-> call.userId, data |-> data]]
    /\ UNCHANGED <<serverVars, hookVars, confirmDialog, modal, props,
                   browserNow, rateLimitInfo>>

(* Lines 328-341: the rest of fetchUserHistory *)
fetched(data) ==
    IF data.success
    THEN [modal EXCEPT !.userHistory = data.user.history,
                       !.claimAttempts = data.user.claim_attempts,
                       !.loading = FALSE]
    ELSE [modal EXCEPT !.error = data.error, !.loading = FALSE]

fetchUserHistory_resume(c) ==
    /\ Running
    /\ modalCalls[c].kind = "fetchUserHistory"
    /\ modalCalls[c].stage = "answered"
    /\ modal' = fetched(modalCalls[c].data)
    /\ modalCalls' = [modalCalls EXCEPT ![c] = None]
    /\ UNCHANGED <<serverVars, hookVars, confirmDialog, props, browserNow,
                   rateLimitInfo>>

(* Lines 304-317: the rest of clearClaimAttempts: on success it awaits
   fetchUserHistory, which returns at once without a userId *)
clearClaimAttempts_resume(c) ==
    /\ Running
    /\ modalCalls[c].kind = "clearClaimAttempts"
    /\ modalCalls[c].stage = "answered"
    /\ LET call == modalCalls[c] IN
       IF call.data.success /\ call.userId # Null
       THEN /\ modal' = [modal EXCEPT !.loading = TRUE, !.error = Null]
            /\ modalCalls' = [modalCalls EXCEPT ![c] =
                  [kind |-> "clearClaimAttempts", stage |-> "refetch",
                   userId |-> call.userId]]
       ELSE /\ modal' = IF call.data.success
                        THEN [modal EXCEPT !.isClearing = FALSE]
                        ELSE [modal EXCEPT !.error = call.data.error,
                                           !.isClearing = FALSE]
            /\ modalCalls' = [modalCalls EXCEPT ![c] = None]
    /\ UNCHANGED <<serverVars, hookVars, confirmDialog, props, browserNow,
                   rateLimitInfo>>

(* Lines 308 and 316: the awaited fetchUserHistory ends, then the finally *)
clearClaimAttempts_refetched(c) ==
    /\ Running
    /\ modalCalls[c].kind = "clearClaimAttempts"
    /\ modalCalls[c].stage = "refetched"
    /\ modal' = [fetched(modalCalls[c].data) EXCEPT !.isClearing = FALSE]
    /\ modalCalls' = [modalCalls EXCEPT ![c] = None]
    /\ UNCHANGED <<serverVars, hookVars, confirmDialog, props, browserNow,
                   rateLimitInfo>>

----------------------------------------------------------------------------
InitServer ==
    /\ clock = InitClock
    /\ requests = [s \in Slots |-> Idle]
    /\ auditLog = <<>>

Init ==
    /\ InitServer
    /\ db \in Collections
    /\ InitHook
    /\ InitModal

Next ==
    \/ Tick
    \/ \E s \in Slots, session \in Sessions, body \in PostBodies :
          POST(s, session, body)
    \/ \E s \in Slots : POST_save(s)
    \/ \E s \in Slots : POST_respond(s)
    \/ \E s \in Slots : Complete(s)

Spec == Init /\ [][Next]_vars

(* useHuntItems with its service *)
InitClient ==
    /\ InitServer
    /\ db = [u \in Emails |-> <<>>]
    /\ InitHook
    /\ InitModal

NextHook ==
    \/ \E c \in CallSlots : OpenEffect(c)
    \/ CloseItems
    \/ \E c \in CallSlots : fetchHuntItems(c)
    \/ \E c \in CallSlots : createHuntItem(c)
    \/ \E c \in CallSlots, item \in Edits : updateHuntItem(c, item)
    \/ \E id \in ItemIds : deleteHuntItem(id)
    \/ \E answer \in {"accepted", "declined"} : Answer(answer)
    \/ \E c \in CallSlots : deleteHuntItem_confirm(c)
    \/ \E c \in CallSlots, ok \in BOOLEAN : huntItemsService(c, ok)
    \/ \E c \in CallSlots : fetchHuntItems_resume(c)
    \/ \E c \in CallSlots : createHuntItem_resume(c)
    \/ \E c \in CallSlots : updateHuntItem_resume(c)
    \/ \E c \in CallSlots : deleteHuntItem_resume(c)

SpecHook == InitClient /\ [][NextHook]_vars

(* The whole route, GET and POST, for every session *)
RouteBodies ==
    {[userEmail |-> "u1", clearType |-> "rate-limit"],
     [userEmail |-> "u1", clearType |-> "bogus"]}

NextRoute ==
    \/ \E s \in Slots, session \in Sessions, query \in Queries :
          GET(s, session, query)
    \/ \E s \in Slots, session \in Sessions, body \in RouteBodies :
          POST(s, session, body)
    \/ \E s \in Slots : POST_save(s)
    \/ \E s \in Slots : POST_respond(s)
    \/ \E s \in Slots : Complete(s)

SpecRoute == Init /\ [][NextRoute]_vars


(* calculateRateLimit on the lists a user's record can hold *)
ShownTimestamps == {k * TickMs : k \in 0..3}

RECURSIVE shownFrom(_, _, _)
shownFrom(k, failed, succeeded) ==
    IF k > 3 THEN <<>>
    ELSE [i \in 1..failed[k * TickMs] |->
            [identifier |-> "code", success |-> FALSE, timestamp |-> k * TickMs]]
         \o (IF succeeded[k * TickMs]
             THEN <<[identifier |-> "code", success |-> TRUE,
                     timestamp |-> k * TickMs]>>
             ELSE <<>>)
         \o shownFrom(k + 1, failed, succeeded)

ShownLists ==
    {shownFrom(0, failed, succeeded) :
        failed \in {f \in [ShownTimestamps -> 0..MaxShown] :
                      f[0] + f[TickMs] + f[2 * TickMs] + f[3 * TickMs] <= MaxShown},
        succeeded \in [ShownTimestamps -> BOOLEAN]}

InitRate ==
    /\ InitServer
    /\ db = [u \in Emails |-> <<>>]
    /\ InitHook
    /\ modal \in [userHistory : {<<>>}, claimAttempts : ShownLists,
                  loading : {FALSE}, error : {Null}, isClearing : {FALSE}]
    /\ props = [isOpen |-> TRUE, userId |-> "u1", userEmail |-> "u1"]
    /\ modalCalls = [c \in CallSlots |-> None]
    /\ browserNow \in {2 * TickMs, 3 * TickMs}
    /\ rateLimitInfo = <<>>

NextRate == RenderRateLimit

SpecRate == InitRate /\ [][NextRate]_vars

(* The two destructive operations of the UI, on a store that holds items *)
InitConfirm ==
    /\ InitServer
    /\ db = [u \in Emails |-> <<>>]
    /\ hook = [huntItems |-> <<>>, loading |-> FALSE, error |-> Null,
               editingItem |-> <<>>, showAddForm |-> FALSE,
               formData |-> emptyFormData, isSubmitting |-> FALSE]
    /\ isOpen = FALSE
    /\ calls = [c \in CallSlots |-> None]
    /\ items = [i \in ItemIds |-> [_id |-> i, points |-> 0]]
    /\ nextId = MaxItems + 1
    /\ confirmDialog = None
    /\ InitModal

NextConfirm ==
    \/ \E c \in CallSlots : OpenEffect(c)
    \/ \E id \in ItemIds : deleteHuntItem(id)
    \/ \E answer \in {"accepted", "declined"} : Answer(answer)
    \/ \E c \in CallSlots : deleteHuntItem_confirm(c)
    \/ \E c \in CallSlots, ok \in BOOLEAN : huntItemsService(c, ok)
    \/ \E c \in CallSlots : fetchHuntItems_resume(c)
    \/ \E c \in CallSlots : deleteHuntItem_resume(c)
    \/ \E c \in {1}, u \in UserIds : OpenModal(c, u)
    \/ handleClose
    \/ \E clearType \in {"rate-limit", "failed"} : clearClaimAttempts(clearType)
    \/ \E c \in {1} : clearClaimAttempts_confirm(c)
    \/ \E c \in {1}, ok \in BOOLEAN : modalService(c, ok)
    \/ \E c \in {1} : fetchUserHistory_resume(c)
    \/ \E c \in {1} : clearClaimAttempts_resume(c)
    \/ \E c \in {1} : clearClaimAttempts_refetched(c)

SpecConfirm == InitConfirm /\ [][NextConfirm]_vars

----------------------------------------------------------------------------
(* Properties of the route *)

Admin(session) == session.user /\ session.admin

(* after is before restricted to the positions K, in before's order *)
Retains(before, after, K) ==
    /\ Len(after) = Cardinality(K)
    /\ \A j \in K : after[Cardinality({k \in K : k <= j})] = before[j]

(* Handler s saves the list of a clear of the given type in this step *)
Saves(s, clearType) ==
    /\ requests[s].pc = "loaded"
    /\ requests'[s].pc = "saved"
    /\ requests[s].request.clearType = clearType

(* C1: a 'rate-limit' clear replaces the user's claim_attempts by exactly the
   attempts that are successful or older than now - 15 minutes, in their
   order: every failed attempt at or after now - 15 minutes goes, no other *)
C1_RateLimitClear ==
    [][\A s \in Slots :
         Saves(s, "rate-limit") =>
            LET u == requests[s].request.userEmail
                K == {j \in 1..Len(db[u]) :
                        \/ db[u][j].success
                        \/ db[u][j].timestamp < clock - 15 * 60 * 1000}
            IN /\ Retains(db[u], db'[u], K)
               /\ \A v \in Emails \ {u} : db'[v] = db[v]]_vars

(* The spec's example: [failed, old; failed, recent; success] becomes
   [failed, old; success] *)
C1_Witness ==
    \E s \in Slots :
        /\ requests[s].pc = "saved"
        /\ requests[s].request.clearType = "rate-limit"
        /\ Len(requests[s].previousAttempts) = 3
        /\ ~requests[s].previousAttempts[2].success
        /\ db["u1"] = <<requests[s].previousAttempts[1],
                        requests[s].previousAttempts[3]>>
        /\ ~db["u1"][1].success
        /\ db["u1"][2].success

(* C2: a 'failed' clear leaves the subsequence of the successful attempts:
   every successful attempt stays, every failed one goes whatever its age *)
C2_FailedClear ==
    [][\A s \in Slots :
         Saves(s, "failed") =>
            LET u == requests[s].request.userEmail
                K == {j \in 1..Len(db[u]) : db[u][j].success}
            IN /\ Retains(db[u], db'[u], K)
               /\ \A v \in Emails \ {u} : db'[v] = db[v]]_vars

C2_Witness ==
    \E s \in Slots :
        /\ requests[s].pc = "saved"
        /\ requests[s].request.clearType = "failed"
        /\ Len(requests[s].previousAttempts) = 3
        /\ ~requests[s].previousAttempts[1].success
        /\ requests[s].previousAttempts[1].timestamp < clock - 15 * 60 * 1000
        /\ db["u1"] = <<requests[s].previousAttempts[2],
                        requests[s].previousAttempts[3]>>
        /\ db["u1"][1].timestamp < db["u1"][2].timestamp

(* C3: the 'rate-limit' clear is idempotent: once a 'rate-limit' clear of a
   user is on record, a further one, at the same or a later time and with no
   attempt recorded since, leaves the list as it finds it *)
RateLimitCleared(u) ==
    \E i \in 1..Len(auditLog) :
        /\ auditLog[i].action = "RESET_RATE_LIMIT"
        /\ auditLog[i].targetUserEmail = u

C3_RateLimitIdempotent ==
    [][\A s \in Slots :
         (Saves(s, "rate-limit") /\ RateLimitCleared(requests[s].request.userEmail))
            => db' = db]_vars

C3_Witness ==
    \E s \in Slots :
        /\ requests[s].pc = "saved"
        /\ requests[s].request.clearType = "rate-limit"
        /\ RateLimitCleared("u1")
        /\ auditLog[1].details.attemptsClearedCount > 0
        /\ clock > InitClock
        /\ requests[s].previousAttempts = db["u1"]
        /\ \E j \in 1..Len(db["u1"]) : ~db["u1"][j].success

(* C4: for GET and POST, no session is answered 401 and a non-admin 403;
   the answer carries only an error, no list changes and nothing is
   logged *)
C4_AdminOnly ==
    [][\A s \in Slots :
         (requests'[s] # requests[s] /\ requests'[s].pc # "idle"
            /\ ~Admin(requests'[s].session))
         => /\ requests'[s].pc = "done"
            /\ requests'[s].status = IF requests'[s].session.user THEN 403 ELSE 401
            /\ DOMAIN requests'[s].body = {"error"}
            /\ db' = db
            /\ auditLog' = auditLog]_vars

C4_Witness ==
    /\ \E u \in Emails : db[u] # <<>>
    /\ \E s \in Slots :
        /\ requests[s].pc = "done"
        /\ requests[s].method = "GET"
        /\ requests[s].status = 403

(* C5: an admin's POST with an unknown clearType is answered 400, one for an
   email no user has 404 (400 when the email is missing); every such request
   is decided before anything is changed or logged *)
Invalid(body) ==
    \/ body.userEmail = NoEmail
    \/ body.clearType \notin {"failed", "all", "rate-limit"}
    \/ body.userEmail \notin Emails

C5_ValidationFirst ==
    [][\A s \in Slots :
         (requests'[s] # requests[s] /\ requests'[s].pc # "idle"
            /\ requests'[s].method = "POST"
            /\ Admin(requests'[s].session) /\ Invalid(requests'[s].request))
         => LET body == requests'[s].request IN
            /\ requests'[s].pc = "done"
            /\ requests'[s].status \in {400, 404}
            /\ (body.userEmail # NoEmail /\ body.clearType
                    \notin {"failed", "all", "rate-limit"})
                 => requests'[s].status = 400
            /\ body.userEmail = NoEmail => requests'[s].status = 400
            /\ (body.userEmail = GhostEmail /\ body.clearType
                    \in {"failed", "all", "rate-limit"})
                 => requests'[s].status = 404
            /\ DOMAIN requests'[s].body = {"error"}
            /\ db' = db
            /\ auditLog' = auditLog]_vars

C5_Witness ==
    /\ db["u1"] # <<>>
    /\ \E s \in Slots :
        /\ requests[s].pc = "done"
        /\ requests[s].method = "POST"
        /\ requests[s].status = 404

(* C6: every clear answered with success has written exactly one audit
   record, holding the attempt and failed-attempt counts of the list before
   and after the clear *)
Counts(attempts) ==
    [claimAttemptsCount |-> Len(attempts),
     failedAttemptsCount |->
        Cardinality({j \in 1..Len(attempts) : ~attempts[j].success})]

C6_EverySuccessAudited ==
    [][\A s \in Slots :
         (requests[s].pc = "saved" /\ requests'[s].pc = "done"
            /\ requests'[s].status = 200)
         => /\ Len(auditLog') = Len(auditLog) + 1
            /\ auditLog'[Len(auditLog')].targetUserEmail
                  = requests[s].request.userEmail
            /\ auditLog'[Len(auditLog')].previousData
                  = Counts(requests[s].previousAttempts)
            /\ auditLog'[Len(auditLog')].newData
                  = Counts(db[requests[s].request.userEmail])]_vars

(* C7: GET returns the `limit` most recent matching attempts taken over
   every matching user, by timestamp descending *)
MatchingAttempts(query) ==
    {<<u, i>> \in Emails \X (1..MaxAttempts) :
        /\ query.email \in {NoEmail, u}
        /\ i <= Len(db[u])
        /\ query.failed => ~db[u][i].success}

MostRecent(returned, query) ==
    LET limit == IF query.limit = <<>> THEN 100 ELSE query.limit[1]
        all == MatchingAttempts(query)
    IN /\ \A i, j \in 1..Len(returned) :
             i < j => returned[i].timestamp >= returned[j].timestamp
       /\ \A k \in 1..Len(returned) :
             \E m \in all :
                /\ returned[k].userEmail = m[1]
                /\ returned[k].success = db[m[1]][m[2]].success
                /\ returned[k].timestamp = db[m[1]][m[2]].timestamp
       /\ \A t \in Timestamps :
             Cardinality({k \in 1..Len(returned) : returned[k].timestamp >= t})
                = Min(limit, Cardinality({m \in all :
                                            db[m[1]][m[2]].timestamp >= t}))

C7_LimitMostRecent ==
    \A s \in Slots :
        (requests[s].pc = "done" /\ requests[s].method = "GET"
            /\ requests[s].status = 200)
        => MostRecent(requests[s].body.claimAttempts, requests[s].request)

----------------------------------------------------------------------------
(* Properties of the rate limit display *)

Shown == rateLimitInfo[1]

Failed(S) == Cardinality({i \in S : ~modal.claimAttempts[i].success})

Derived(info) ==
    /\ info.isRateLimited = (info.recentFailedAttempts >= 10)
    /\ info.remainingAttempts = IF info.recentFailedAttempts >= 10 THEN 0
                                ELSE 10 - info.recentFailedAttempts

(* C8, as claimed: recentFailedAttempts counts the failed attempts of the
   closed window [now - 15 min, now]; an attempt later than now is not
   counted; isRateLimited and remainingAttempts follow with threshold 10 *)
C8_ClosedWindow ==
    rateLimitInfo # <<>> =>
        /\ Shown.recentFailedAttempts =
              Failed({i \in 1..Len(modal.claimAttempts) :
                        /\ modal.claimAttempts[i].timestamp
                              >= browserNow - 15 * 60 * 1000
                        /\ modal.claimAttempts[i].timestamp <= browserNow})
        /\ Derived(Shown)

(* C8, amended: recentFailedAttempts counts the failed attempts whose
   timestamp is at or after now - 15 min, those later than now included;
   isRateLimited and remainingAttempts follow with threshold 10 *)
C8_TrailingWindow ==
    rateLimitInfo # <<>> =>
        /\ Shown.recentFailedAttempts =
              Failed({i \in 1..Len(modal.claimAttempts) :
                        modal.claimAttempts[i].timestamp
                           >= browserNow - 15 * 60 * 1000})
        /\ Derived(Shown)

(* Ten failed attempts counted, one of them on the boundary and one later
   than now, beside an older failed attempt and a success in the window *)
C8_Witness ==
    /\ rateLimitInfo # <<>>
    /\ Shown.isRateLimited
    /\ Shown.recentFailedAttempts = 10
    /\ Len(modal.claimAttempts) = 11
    /\ \E i \in 1..Len(modal.claimAttempts) :
          /\ ~modal.claimAttempts[i].success
          /\ modal.claimAttempts[i].timestamp = browserNow - 15 * 60 * 1000
    /\ \E i \in 1..Len(modal.claimAttempts) :
          /\ ~modal.claimAttempts[i].success
          /\ modal.claimAttempts[i].timestamp > browserNow
    /\ \E i \in 1..Len(modal.claimAttempts) :
          /\ ~modal.claimAttempts[i].success
          /\ modal.claimAttempts[i].timestamp < browserNow - 15 * 60 * 1000

----------------------------------------------------------------------------
(* Properties of the UI *)

(* C9: a DELETE of a hunt item or a POST clear is sent only as the confirm
   dialog of that very action returns accepted; when the dialog returns
   declined nothing is sent and no state of the hook or the modal changes *)
C9_ConfirmFirst ==
    [][/\ \A c \in CallSlots :
            (calls'[c] # calls[c] /\ calls'[c].kind = "delete"
                /\ calls'[c].stage = "sent")
            => /\ confirmDialog = [kind |-> "deleteHuntItem",
                                   id |-> calls'[c].id, answer |-> "accepted"]
               /\ confirmDialog' = None
       /\ \A c \in CallSlots :
            (modalCalls'[c] # modalCalls[c]
                /\ modalCalls'[c].kind = "clearClaimAttempts"
                /\ modalCalls'[c].stage = "sent")
            => /\ confirmDialog = [kind |-> "clearClaimAttempts",
                                   clearType |-> modalCalls'[c].clearType,
                                   answer |-> "accepted"]
               /\ confirmDialog' = None
       /\ (confirmDialog.kind # "none" /\ confirmDialog.answer = "declined"
              /\ confirmDialog' = None)
            => UNCHANGED <<hook, calls, modal, modalCalls>>]_vars

(* A DELETE and a clear on their way, and a further delete declined *)
C9_Witness ==
    /\ \E c \in CallSlots : calls[c].kind = "delete" /\ calls[c].stage = "sent"
    /\ \E c \in CallSlots :
          /\ modalCalls[c].kind = "clearClaimAttempts"
          /\ modalCalls[c].stage = "sent"
    /\ confirmDialog.kind = "deleteHuntItem"
    /\ confirmDialog.answer = "declined"

(* C10: a create, update or delete that completes with success changes the
   displayed list by its own effect on the list displayed just before: the
   new item in front, the matching record replaced, the record removed,
   whatever else was pending *)
Completes(c, kind) ==
    /\ calls[c].kind = kind
    /\ calls[c].stage = "answered"
    /\ calls'[c] = None
    /\ calls[c].data.success

C10_OwnEffect ==
    [][\A c \in CallSlots :
         /\ Completes(c, "create")
              => hook'.huntItems = <<calls[c].data.huntItem>> \o hook.huntItems
         /\ Completes(c, "update")
              => /\ Len(hook'.huntItems) = Len(hook.huntItems)
                 /\ \A i \in 1..Len(hook.huntItems) :
                       hook'.huntItems[i] =
                          IF hook.huntItems[i]._id = calls[c].item._id
                          THEN calls[c].data.huntItem
                          ELSE hook.huntItems[i]
         /\ Completes(c, "delete")
              => Retains(hook.huntItems, hook'.huntItems,
                         {i \in 1..Len(hook.huntItems) :
                            hook.huntItems[i]._id # calls[c].id})]_vars

----------------------------------------------------------------------------
(* The add form: the hook opened, closed and reopened, and creates
   submitted from a form whose button is disabled while isSubmitting *)

submitForm(c) ==
    /\ ~hook.isSubmitting
    /\ createHuntItem(c)

NextSubmit ==
    \/ \E c \in CallSlots : OpenEffect(c)
    \/ CloseItems
    \/ \E c \in CallSlots : submitForm(c)
    \/ \E c \in CallSlots, ok \in BOOLEAN : huntItemsService(c, ok)
    \/ \E c \in CallSlots : fetchHuntItems_resume(c)
    \/ \E c \in CallSlots : createHuntItem_resume(c)

SpecSubmit == InitClient /\ [][NextSubmit]_vars

Outstanding(kinds) ==
    {c \in CallSlots : calls[c].kind \in kinds /\ calls[c].stage = "sent"}

(* C11: the hook has at most one request outstanding at any time; while a
   create is outstanding isSubmitting is true and there is no second create
   outstanding, a reopen of the modal in between included *)
C11_OneOutstanding ==
    /\ Cardinality(Outstanding({"fetch", "create", "update", "delete"})) <= 1
    /\ Outstanding({"create"}) # {} => hook.isSubmitting
    /\ Cardinality(Outstanding({"create"})) <= 1

----------------------------------------------------------------------------
(* Two clears at once *)

RaceSlots == {1, 2}

(* the admins whose clears are audited *)
RaceSessions ==
    {session \in Sessions :
        authStatus(session) = 0 /\ session.email # NoEmail}

RaceBodies == [userEmail : {"u1"}, clearType : validClearTypes]

InitRace ==
    /\ clock = InitClock
    /\ requests = [s \in RaceSlots |-> Idle]
    /\ auditLog = <<>>
    /\ db \in {d \in Collections : d["u2"] = <<>>}
    /\ InitHook
    /\ InitModal

NextRace ==
    \/ Tick
    \/ \E s \in RaceSlots, session \in RaceSessions, body \in RaceBodies :
          POST(s, session, body)
    \/ \E s \in RaceSlots : POST_save(s)
    \/ \E s \in RaceSlots : POST_respond(s)
    \/ \E s \in RaceSlots : Complete(s)

SpecRace == InitRace /\ [][NextRace]_vars

(* C12: nothing serializes the clears of one user. A save stores the filter
   of its clear applied to the list its own handler read, whatever another
   handler stored in between, and nothing but a save changes the stored
   lists: of two overlapping clears the later save stays *)
C12_LastWriteWins ==
    [][/\ \A s \in RaceSlots :
            (requests[s].pc = "loaded" /\ requests'[s].pc = "saved")
            => LET p == requests[s] IN
               /\ db'[p.request.userEmail] =
                     clearAttempts(p.previousAttempts, p.request.clearType,
                                   clock)
               /\ \A v \in Emails \ {p.request.userEmail} : db'[v] = db[v]
       /\ (\A s \in RaceSlots :
              ~(requests[s].pc = "loaded" /\ requests'[s].pc = "saved"))
            => db' = db]_vars

(* Two clears of one user that read the same list before either saved, both
   past their save and about to answer success: the later save is what is
   stored, it holds an attempt the earlier clear removed, and it is the
   result of neither serial order of the two clears, at whatever times *)
C12_Witness ==
    \E s, t \in RaceSlots :
        /\ s # t
        /\ requests[s].pc = "saved" /\ requests[t].pc = "saved"
        /\ requests[s].request.userEmail = requests[t].request.userEmail
        /\ requests[s].previousAttempts = requests[t].previousAttempts
        /\ LET u == requests[s].request.userEmail
               L == requests[s].previousAttempts
               A == requests[s].request.clearType
               B == requests[t].request.clearType
               Times == {k * TickMs : k \in 0..MaxClock}
           IN /\ requests[s].claim_attempts # L
              /\ requests[t].claim_attempts # L
              /\ db[u] = requests[t].claim_attempts
              /\ \E i \in 1..Len(db[u]) :
                    \A j \in 1..Len(requests[s].claim_attempts) :
                        requests[s].claim_attempts[j] # db[u][i]
              /\ \A t1, t2 \in Times :
                    /\ db[u] # clearAttempts(clearAttempts(L, A, t1), B, t2)
                    /\ db[u] # clearAttempts(clearAttempts(L, B, t1), A, t2)

----------------------------------------------------------------------------
(* The reset of the server and the display of the client *)

(* A 'rate-limit' clear of u has saved: it is past its save, has answered,
   or is on record *)
Reset(u) ==
    \/ RateLimitCleared(u)
    \/ \E s \in Slots :
          /\ requests[s].pc \in {"saved", "done"}
          /\ requests[s].method = "POST"
          /\ requests[s].request.clearType = "rate-limit"
          /\ requests[s].request.userEmail = u
          /\ requests[s].pc = "done" => requests[s].status = 200

(* C13: once a 'rate-limit' clear of a user has saved, calculateRateLimit on
   the stored list says 0 recent failed attempts, not limited, 10 remaining,
   at the time of the clear and at any later time; and no attempt, one on
   the boundary of the window included, is both kept by the server's filter
   and counted by the client's *)
C13_DisplayAgrees ==
    /\ \A u \in Emails :
          Reset(u) => calculateRateLimit(db[u], clock) =
                         [recentFailedAttempts |-> 0, isRateLimited |-> FALSE,
                          remainingAttempts |-> 10]
    /\ \A u \in Emails : \A i \in 1..Len(db[u]) :
          \A now \in {k * TickMs : k \in 0..MaxClock} :
              ~(keepRateLimit(db[u][i], now) /\ recentFailed(db[u][i], now))

(* A completed, recorded reset that removed a failed attempt stamped exactly
   now - 15 min and kept an older failed attempt *)
C13_Witness ==
    /\ requests[1] = Idle
    /\ RateLimitCleared("u1")
    /\ auditLog[1].details.attemptsClearedCount > 0
    /\ auditLog[1].previousData.failedAttemptsCount = 2
    /\ auditLog[1].newData.failedAttemptsCount = 1
    /\ clock = 2 * WindowMs
    /\ \E i \in 1..Len(db["u1"]) :
          ~db["u1"][i].success /\ db["u1"][i].timestamp = 0

----------------------------------------------------------------------------
(* UserHistoryDetailsModal opened, closed and reopened on the users *)

NextModal ==
    \/ \E c \in CallSlots, u \in UserIds : OpenModal(c, u)
    \/ handleClose
    \/ \E c \in CallSlots, ok \in BOOLEAN : modalService(c, ok)
    \/ \E c \in CallSlots : fetchUserHistory_resume(c)

SpecModal == InitClient /\ [][NextModal]_vars

(* C14: while the modal is open for a user and not loading, the history and
   the claim attempts displayed are empty or that user's, and no fetch for
   that user is still in flight *)
C14_ShownIsOwn ==
    (props.isOpen /\ ~modal.loading) =>
        /\ modal.userHistory \in {<<>>, userData(props.userId).history}
        /\ modal.claimAttempts
              \in {<<>>, userData(props.userId).claim_attempts}
        /\ \A c \in CallSlots :
              ~(/\ modalCalls[c].kind = "fetchUserHistory"
                /\ modalCalls[c].userId = props.userId)

============================================================================
